---- MODULE Spec2Model ----
(***************************************************************************)
(* Model of ParticipantController (src/Solut.py): construction from the    *)
(* phase catalogs and the per-tick decision function decide_next_phase.    *)
(*                                                                         *)
(* Number representation (exact, no floating point):                       *)
(*   waiting counts      thirds of a vehicle   (w3 = 3 * waiting)          *)
(*   capacity            halves                (cap2 = 2 * capacity)       *)
(*   efficiency          sixths                (eff6 = 6 * efficiency)     *)
(*   time_in_phase       a fraction <<num, den>> of seconds, den > 0       *)
(*   time_to_next_switch hundredths of a second                            *)
(*   duration (emitted)  tenths of a second                                *)
(*   Python's None       NoneVal                                           *)
(*   a dict                a function on the set of its keys               *)
(*   the value returned    [is_none, map]: None, or the decision dict      *)
(***************************************************************************)
EXTENDS Integers, Sequences, FiniteSets, TLC

MaxTicks == 2

NoneVal == -1

min_green_duration == 70

max_green_duration == 700

tls_ids == <<"A", "B">>

TLS == {tls_ids[i] : i \in DOMAIN tls_ids}

EmptyDict == [k \in {} |-> 0]

\* dict.get(key, default)
Get(d, key, default) == IF key \in DOMAIN d THEN d[key] ELSE default

\* ------------------------------------------------------------------------
\* Phase catalogs handed to the constructor by get_phase_catalog.
\* ------------------------------------------------------------------------
Phase(i, s) == [index |-> i, state |-> s]

CatMixed ==
  << Phase(2, <<"G", "r">>), Phase(1, <<"y", "r">>),
     Phase(0, <<"r", "g">>), Phase(3, <<"r", "r">>) >>

CatThree ==
  << Phase(3, <<"G", "g">>), Phase(0, <<"G", "r">>),
     Phase(1, <<"G", "y">>), Phase(2, <<"r", "G">>) >>

CatNoGreen ==
  << Phase(0, <<"r", "r">>), Phase(1, <<"G", "y">>), Phase(2, <<"y", "r">>) >>

Catalogs == {CatMixed, CatThree, CatNoGreen}

\* the catalogs of the intersections the controller is constructed over
CatalogChoices ==
  { (tls_ids[1] :> CatMixed)   @@ (tls_ids[2] :> CatMixed),
    (tls_ids[1] :> CatThree)   @@ (tls_ids[2] :> CatMixed),
    (tls_ids[1] :> CatNoGreen) @@ (tls_ids[2] :> CatMixed),
    (tls_ids[1] :> CatThree)   @@ (tls_ids[2] :> CatNoGreen) }

PhaseIds == 0 .. 3

\* ------------------------------------------------------------------------
\* Construction
\* ------------------------------------------------------------------------
Chars(s) == {s[i] : i \in DOMAIN s}

IsGreenIgnoringYellow(phase) == Chars(phase.state) \cap {"G", "g"} # {}

\* "y" not in phase.state and any(ch in ("G", "g") for ch in phase.state)
IsGreen(phase) ==
  /\ "y" \notin Chars(phase.state)
  /\ Chars(phase.state) \cap {"G", "g"} # {}

RECURSIVE GreenIndices(_)
\* the list comprehension: indices of the green phases, in catalog order
GreenIndices(phases) ==
  IF phases = <<>> THEN <<>>
  ELSE IF IsGreen(Head(phases))
       THEN <<Head(phases).index>> \o GreenIndices(Tail(phases))
       ELSE GreenIndices(Tail(phases))

RECURSIVE InsertAsc(_, _)
InsertAsc(x, s) ==
  IF s = <<>> THEN <<x>>
  ELSE IF Head(s) <= x THEN <<Head(s)>> \o InsertAsc(x, Tail(s))
       ELSE <<x>> \o s

RECURSIVE SortAscFrom(_, _)
SortAscFrom(s, acc) ==
  IF s = <<>> THEN acc ELSE SortAscFrom(Tail(s), InsertAsc(Head(s), acc))

\* greens.sort()
SortAsc(s) == SortAscFrom(s, <<>>)

RECURSIVE InitLoop(_, _, _)
\* the first loop of __init__: fills green_phases and cursor intersection by
\* intersection, and raises at the first intersection without a green phase
InitLoop(cat, i, acc) ==
  IF i > Len(tls_ids) THEN acc
  ELSE LET tls_id == tls_ids[i]
           greens == GreenIndices(cat[tls_id])
       IN  IF greens = <<>>
           THEN [acc EXCEPT !.raised = TRUE]
           ELSE InitLoop(cat, i + 1,
                  [acc EXCEPT !.green_phases = (tls_id :> SortAsc(greens)) @@ @,
                              !.cursor = (tls_id :> 0) @@ @])

\* ------------------------------------------------------------------------
\* Traffic scoring
\* ------------------------------------------------------------------------
Max(a, b) == IF a >= b THEN a ELSE b

\* _calculate_waiting_traffic, in thirds
CalculateWaitingTraffic(observation, tls_id, phase_id) ==
  Get(Get(observation.waiting_vehicles, tls_id, EmptyDict), phase_id, 0)

\* _estimate_phase_capacity, in halves: max(10, 100 + waiting * 1.5)
EstimatePhaseCapacity(observation, tls_id, phase_id) ==
  Max(20, 200 + CalculateWaitingTraffic(observation, tls_id, phase_id))

\* _calculate_phase_efficiency, in sixths
CalculatePhaseEfficiency(observation, tls_id, phase_id) ==
  LET waiting  == CalculateWaitingTraffic(observation, tls_id, phase_id)
      capacity == EstimatePhaseCapacity(observation, tls_id, phase_id)
  IN  IF waiting <= 0 THEN 0 ELSE waiting * capacity

RECURSIVE InsertDescBeforeEquals(_, _)
InsertDescBeforeEquals(x, s) ==
  IF s = <<>> THEN <<x>>
  ELSE IF Head(s)[2] > x[2] THEN <<Head(s)>> \o InsertDescBeforeEquals(x, Tail(s))
       ELSE <<x>> \o s

RECURSIVE InsertDesc(_, _)
\* x goes behind every element whose score is >= its own (stable)
InsertDesc(x, s) ==
  IF s = <<>> THEN <<x>>
  ELSE IF Head(s)[2] >= x[2] THEN <<Head(s)>> \o InsertDesc(x, Tail(s))
       ELSE <<x>> \o s

RECURSIVE SortDescFrom(_, _)
SortDescFrom(s, acc) ==
  IF s = <<>> THEN acc ELSE SortDescFrom(Tail(s), InsertDesc(Head(s), acc))

\* list.sort(key=lambda x: x[1], reverse=True): stable, descending by score
SortDesc(s) == SortDescFrom(s, <<>>)

\* _get_phase_priority: <<phase_id, eff6>> pairs, best first
GetPhasePriority(greens, observation, tls_id) ==
  SortDesc([i \in DOMAIN greens |->
              <<greens[i], CalculatePhaseEfficiency(observation, tls_id, greens[i])>>])

\* ------------------------------------------------------------------------
\* Phase selection (steps 1-3 of decide_next_phase)
\* ------------------------------------------------------------------------
\* 120.0 / (time_in_phase + 1.0) is 120 * den / (num + den); every score of
\* one ranking is multiplied by the same positive factor (num + den), which
\* keeps the order and the ties of the ranking: efficiency in sixths times
\* (num + den), the penalty 6 * 120 * den.
AdjustedScoreRewardingSwitch(phase_id, eff, current_phase, time_in_phase) ==
  LET scale == time_in_phase[1] + time_in_phase[2]
  IN  IF phase_id # current_phase
      THEN eff * scale + 720 * time_in_phase[2]
      ELSE eff * scale

AdjustedScore(phase_id, eff, current_phase, time_in_phase) ==
  LET scale == time_in_phase[1] + time_in_phase[2]
  IN  IF phase_id # current_phase
      THEN eff * scale - 720 * time_in_phase[2]
      ELSE eff * scale

\* the penalty pass over raw_priorities followed by priorities.sort(...)
Priorities(raw_priorities, current_phase, time_in_phase) ==
  SortDesc([i \in DOMAIN raw_priorities |->
              <<raw_priorities[i][1],
                AdjustedScore(raw_priorities[i][1], raw_priorities[i][2],
                              current_phase, time_in_phase)>>])

RECURSIVE CurrentEff(_, _)
\* next((s for p, s in raw_priorities if p == current_phase), 0)
CurrentEff(raw_priorities, current_phase) ==
  IF raw_priorities = <<>> THEN 0
  ELSE IF Head(raw_priorities)[1] = current_phase THEN Head(raw_priorities)[2]
       ELSE CurrentEff(Tail(raw_priorities), current_phase)

StayRuleStrict(current_eff, best_eff) == 20 * current_eff > 17 * best_eff

\* current_eff >= 0.85 * best_eff
StayRule(current_eff, best_eff) == 20 * current_eff >= 17 * best_eff

\* a selection that rotates through the green phases with the number of
\* actions recorded so far
SelectPhaseByHistory(self, observation, tls_id, current_phase, time_in_phase) ==
  LET greens  == self.green_phases[tls_id]
      counted == self.last_phase_actions[tls_id]
  IN  IF DOMAIN counted = {} THEN greens[1]
      ELSE greens[(Cardinality(DOMAIN counted) % Len(greens)) + 1]

\* steps 1-3: the phase decide_next_phase settles on
SelectPhase(self, observation, tls_id, current_phase, time_in_phase) ==
  LET raw_priorities == GetPhasePriority(self.green_phases[tls_id], observation, tls_id)
      priorities     == Priorities(raw_priorities, current_phase, time_in_phase)
      best_phase     == priorities[1][1]
  IN  IF current_phase # NoneVal
         /\ StayRule(CurrentEff(raw_priorities, current_phase), raw_priorities[1][2])
      THEN current_phase
      ELSE best_phase

\* ------------------------------------------------------------------------
\* Duration (step 4).  An unrounded duration is the pair [lin, rad] standing
\* for (lin + sqrt(rad)) / 200 seconds.
\* ------------------------------------------------------------------------
RECURSIVE IsqrtIter(_, _, _)
IsqrtIter(n, lo, hi) ==
  IF lo = hi THEN lo
  ELSE LET mid == (lo + hi + 1) \div 2
       IN  IF mid * mid <= n THEN IsqrtIter(n, mid, hi)
           ELSE IsqrtIter(n, lo, mid - 1)

\* floor of the square root
Isqrt(n) == IsqrtIter(n, 0, 8191)

RawDurationWithoutMinGreen(waiting, capacity) ==
  [lin |-> 18 * waiting, rad |-> 578 * capacity]

\* min_green_duration + alpha * waiting + beta * (capacity ** 0.5):
\* 200 * 0.27 * waiting = 18 * w3, (200 * 0.17) ^ 2 * capacity = 578 * cap2
RawDuration(waiting, capacity) ==
  [lin |-> 20 * min_green_duration + 18 * waiting, rad |-> 578 * capacity]

\* (lin + sqrt(rad)) / 200 <= bound / 10
DurLe(d, bound) ==
  /\ d.lin <= 20 * bound
  /\ d.rad <= (20 * bound - d.lin) * (20 * bound - d.lin)

DurGe(d, bound) ==
  \/ d.lin >= 20 * bound
  \/ d.rad >= (20 * bound - d.lin) * (20 * bound - d.lin)

\* max(min_green_duration, min(max_green_duration, duration))
Clamp(d) ==
  LET capped == IF DurGe(d, max_green_duration)
                THEN [lin |-> 20 * max_green_duration, rad |-> 0] ELSE d
  IN  IF DurLe(capped, min_green_duration)
      THEN [lin |-> 20 * min_green_duration, rad |-> 0] ELSE capped

LongPhaseDecayGrows(d, time_in_phase) ==
  IF time_in_phase[1] > 60 * time_in_phase[2]
  THEN [lin |-> 11 * d.lin, rad |-> 121 * d.rad]
  ELSE [lin |-> 10 * d.lin, rad |-> 100 * d.rad]

\* if time_in_phase > 60: duration *= 0.9; the result stands for
\* (lin + sqrt(rad)) / 2000 seconds
LongPhaseDecay(d, time_in_phase) ==
  IF time_in_phase[1] > 60 * time_in_phase[2]
  THEN [lin |-> 9 * d.lin, rad |-> 81 * d.rad]
  ELSE [lin |-> 10 * d.lin, rad |-> 100 * d.rad]

\* float(f"{duration:.1f}"), in tenths: the nearest tenth, an exact half
\* going to the even digit
RoundTenths(d) ==
  LET root  == Isqrt(d.rad)
      total == d.lin + root + 100
      q     == total \div 200
  IN  IF root * root = d.rad /\ total % 200 = 0 /\ q % 2 = 1 THEN q - 1 ELSE q

\* step 4 for the phase chosen
ComputeDuration(observation, tls_id, best_phase, time_in_phase) ==
  LET waiting  == CalculateWaitingTraffic(observation, tls_id, best_phase)
      capacity == EstimatePhaseCapacity(observation, tls_id, best_phase)
  IN  RoundTenths(LongPhaseDecay(Clamp(RawDuration(waiting, capacity)), time_in_phase))

\* ------------------------------------------------------------------------
\* decide_next_phase
\* ------------------------------------------------------------------------
NotYetDueInclusive(time_to_switch) == time_to_switch >= 50

\* time_to_switch > 0.5
NotYetDue(time_to_switch) == time_to_switch > 50

\* light_info = observation.get("lights", {}).get(tls_id); "not light_info"
\* holds for a missing entry and for an empty record alike
LightInfoFalsy(observation, tls_id) ==
  \/ tls_id \notin DOMAIN observation.lights
  \/ DOMAIN observation.lights[tls_id] = {}

\* an intersection the loop does not skip
Acts(observation, tls_id) ==
  /\ ~LightInfoFalsy(observation, tls_id)
  /\ ~NotYetDue(Get(observation.lights[tls_id], "time_to_next_switch", 0))

IncrementCounterForgetting(counters, best_phase) == (best_phase :> 1) @@ counters

\* step 5: counters[best_phase] = counters.get(best_phase, 0) + 1
IncrementCounter(counters, best_phase) ==
  (best_phase :> (Get(counters, best_phase, 0) + 1)) @@ counters

\* steps 1-4 and 6 for one intersection that acts: its decision entry
DecideForTls(self, observation, tls_id) ==
  LET light_info    == observation.lights[tls_id]
      current_phase == Get(light_info, "current_phase", NoneVal)
      time_in_phase == Get(light_info, "time_in_phase", <<0, 1>>)
      Entry(best_phase) ==
        [phase_id |-> best_phase,
         duration |-> ComputeDuration(observation, tls_id, best_phase, time_in_phase)]
  IN  CHOOSE entry \in
        { Entry(best_phase) :
            best_phase \in {SelectPhase(self, observation, tls_id,
                                        current_phase, time_in_phase)} } : TRUE

\* the decision dict once the loop over self.tls_ids is over: the iterations
\* touch disjoint keys, an entry for every intersection that was not skipped
DecisionMap(self, observation) ==
  [tls_id \in {t \in TLS : Acts(observation, t)} |->
     DecideForTls(self, observation, tls_id)]

\* self.last_phase_actions once the loop is over
CountersAfter(self, decision) ==
  [tls_id \in TLS |->
     IF tls_id \in DOMAIN decision
     THEN IncrementCounter(self.last_phase_actions[tls_id], decision[tls_id].phase_id)
     ELSE self.last_phase_actions[tls_id]]

\* return decision or None
ReturnValue(decision) ==
  IF DOMAIN decision = {} THEN [is_none |-> TRUE, map |-> EmptyDict]
  ELSE [is_none |-> FALSE, map |-> decision]

\* ------------------------------------------------------------------------
\* Observations offered by the runtime
\* ------------------------------------------------------------------------
TimeInPhaseValues == {<<31, 209>>, <<10, 1>>, <<60, 1>>, <<61, 1>>}

CurrentPhaseValues == {NoneVal, 0, 1, 2, 3}

WaitingProfiles ==
  { EmptyDict,
    (0 :> 15) @@ (2 :> 150),
    (0 :> 225) @@ (2 :> 250),
    (0 :> 3) @@ (2 :> 6),
    (0 :> 3) @@ (2 :> 15) @@ (3 :> 15),
    (0 :> 750),
    (0 :> 3),
    (1 :> 15) }

\* a light record; an unknown current phase is a record without the key
LightRecord(c, s, t) ==
  IF c = NoneVal THEN [time_to_next_switch |-> s, time_in_phase |-> t]
  ELSE [current_phase |-> c, time_to_next_switch |-> s, time_in_phase |-> t]

ObsPiece(tls_id, light, waiting) ==
  [lights |-> (tls_id :> light), waiting_vehicles |-> (tls_id :> waiting)]

AbsentPiece == [lights |-> EmptyDict, waiting_vehicles |-> EmptyDict]

Merge(a, b) ==
  [lights |-> a.lights @@ b.lights,
   waiting_vehicles |-> a.waiting_vehicles @@ b.waiting_vehicles]

\* the first intersection, due to switch: every current phase, time in phase
\* and waiting profile
DuePieces ==
  { ObsPiece(tls_ids[1], LightRecord(c, 0, t), w) :
      c \in CurrentPhaseValues, t \in TimeInPhaseValues, w \in WaitingProfiles }

\* the first intersection around the gate: at the threshold, past it, with a
\* record that leaves the times to their defaults, with an empty record, and
\* missing from lights
GatePieces ==
  { ObsPiece(tls_ids[1], LightRecord(0, s, <<10, 1>>), (0 :> 15) @@ (2 :> 150)) :
      s \in {50, 51} }
  \cup { ObsPiece(tls_ids[1], [current_phase |-> 0], (0 :> 15) @@ (2 :> 150)),
         ObsPiece(tls_ids[1], EmptyDict, (0 :> 15) @@ (2 :> 150)),
         AbsentPiece }

\* the second intersection, when the observation holds it
SecondPieces ==
  { ObsPiece(tls_ids[2], LightRecord(0, 50, <<10, 1>>), (0 :> 15) @@ (2 :> 150)),
    ObsPiece(tls_ids[2], LightRecord(2, 51, <<61, 1>>), (0 :> 15)) }

\* the loop treats the intersections alike and independently: the second one
\* is either missing, or comes with one of the gate cases of the first
Observations ==
  { Merge(a, AbsentPiece) : a \in DuePieces \cup GatePieces }
  \cup { Merge(a, b) : a \in GatePieces, b \in SecondPieces }

\* ------------------------------------------------------------------------
\* State
\* ------------------------------------------------------------------------
VARIABLES
  pc,                  \* "new", "ready" (constructed) or "failed" (raised)
  catalog,             \* the phase catalogs get_phase_catalog returns
  green_phases,        \* self.green_phases
  cursor,              \* self.cursor
  last_phase_actions,  \* self.last_phase_actions
  observation,         \* argument of the latest decide_next_phase call
  result,              \* value the latest call returned
  fresh_result,        \* value a newly constructed controller with the same
                       \* catalogs returns for the same observation
  ticks,               \* number of calls made
  appeared             \* per intersection, number of calls whose decision held it

vars == <<pc, catalog, green_phases, cursor, last_phase_actions, observation,
          result, fresh_result, ticks, appeared>>

Self == [green_phases |-> green_phases, cursor |-> cursor,
         last_phase_actions |-> last_phase_actions]

NoResult == [is_none |-> TRUE, map |-> EmptyDict]

Init ==
  /\ pc = "new"
  /\ catalog \in CatalogChoices
  /\ green_phases = EmptyDict
  /\ cursor = EmptyDict
  /\ last_phase_actions = EmptyDict
  /\ observation = AbsentPiece
  /\ result = NoResult
  /\ fresh_result = NoResult
  /\ ticks = 0
  /\ appeared = [t \in TLS |-> 0]

\* __init__: both loops; an intersection without green phases raises and the
\* object never comes to exist
Construct ==
  /\ pc = "new"
  /\ LET built == InitLoop(catalog, 1, [green_phases |-> EmptyDict,
                                        cursor |-> EmptyDict, raised |-> FALSE])
     IN  /\ green_phases' = built.green_phases
         /\ cursor' = built.cursor
         /\ IF built.raised
            THEN /\ pc' = "failed"
                 /\ last_phase_actions' = EmptyDict
            ELSE /\ pc' = "ready"
                 /\ last_phase_actions' = [t \in TLS |-> EmptyDict]
  /\ UNCHANGED <<catalog, observation, result, fresh_result, ticks, appeared>>

FreshSelf == [green_phases |-> green_phases, cursor |-> [t \in TLS |-> 0],
              last_phase_actions |-> [t \in TLS |-> EmptyDict]]

\* one tick: the runtime calls decide_next_phase(obs)
Tick(obs) ==
  /\ pc = "ready"
  /\ ticks < MaxTicks
  /\ \E decision \in {DecisionMap(Self, obs)} :
         /\ result' = ReturnValue(decision)
         /\ last_phase_actions' = CountersAfter(Self, decision)
         /\ appeared' = [t \in TLS |->
                           IF t \in DOMAIN decision THEN appeared[t] + 1
                           ELSE appeared[t]]
  /\ fresh_result' = ReturnValue(DecisionMap(FreshSelf, obs))
  /\ observation' = obs
  /\ ticks' = ticks + 1
  /\ UNCHANGED <<pc, catalog, green_phases, cursor>>

Next ==
  \/ Construct
  \/ \E obs \in Observations : Tick(obs)

Spec == Init /\ [][Next]_vars

\* ------------------------------------------------------------------------
\* Vocabulary of the properties: the latest call, seen from outside
\* ------------------------------------------------------------------------
Range(f) == {f[x] : x \in DOMAIN f}

Called == pc = "ready" /\ ticks > 0

Decided == DOMAIN result.map

CurrentOf(t) == Get(observation.lights[t], "current_phase", NoneVal)

TimeInPhaseOf(t) == Get(observation.lights[t], "time_in_phase", <<0, 1>>)

GreenSet(t) == Range(green_phases[t])

RawEff(t, p) == CalculatePhaseEfficiency(observation, t, p)

\* raw efficiency of the current phase as looked up among the green phases
\* (0 when the current phase is not one of them)
CurrentRawEff(t) == IF CurrentOf(t) \in GreenSet(t) THEN RawEff(t, CurrentOf(t)) ELSE 0

BestRawEff(t) == CHOOSE e \in {RawEff(t, p) : p \in GreenSet(t)} :
                   \A p \in GreenSet(t) : e >= RawEff(t, p)

StayFires(t) ==
  CurrentOf(t) # NoneVal /\ 20 * CurrentRawEff(t) >= 17 * BestRawEff(t)

\* penalty-adjusted score, times (num + den) of time_in_phase
Adjusted(t, p) ==
  RawEff(t, p) * (TimeInPhaseOf(t)[1] + TimeInPhaseOf(t)[2])
    - (IF p = CurrentOf(t) THEN 0 ELSE 720 * TimeInPhaseOf(t)[2])

\* green phases whose adjusted score is the highest
TopAdjusted(t) ==
  {p \in GreenSet(t) : \A q \in GreenSet(t) : Adjusted(t, p) >= Adjusted(t, q)}

MinOf(S) == CHOOSE x \in S : \A y \in S : x <= y

CountOf(counters, t, p) == Get(counters[t], p, 0)

Emitted(r, t, p) == t \in DOMAIN r.map /\ r.map[t].phase_id = p

RECURSIVE SumCounters(_)
SumCounters(f) ==
  IF DOMAIN f = {} THEN 0
  ELSE LET p == CHOOSE x \in DOMAIN f : TRUE
       IN  f[p] + SumCounters([q \in DOMAIN f \ {p} |-> f[q]])

\* ------------------------------------------------------------------------
\* Properties
\* ------------------------------------------------------------------------

\* C1: every phase_id in a returned decision is one of that intersection's
\* green phases, whatever the observation.
C1_PhaseIdIsGreen ==
  Called => \A t \in Decided : result.map[t].phase_id \in GreenSet(t)

\* C2 as stated: an intersection is in the result exactly when it appears in
\* lights and its time_to_next_switch (0 when the record lacks it) is <= 0.5;
\* the result is None exactly when there is none, and never an empty map.
C2_EntryIffListedAndDue ==
  Called =>
    /\ \A t \in TLS :
         t \in Decided <=>
           /\ t \in DOMAIN observation.lights
           /\ Get(observation.lights[t], "time_to_next_switch", 0) <= 50
    /\ result.is_none <=> Decided = {}
    /\ ~result.is_none => DOMAIN result.map # {}

\* C2 amended: an intersection is in the result exactly when lights holds a
\* non-empty record for it whose time_to_next_switch (0 when the record lacks
\* it) is <= 0.5; None exactly when there is none, never an empty map.
C2_EntryIffNonEmptyRecordAndDue ==
  Called =>
    /\ \A t \in TLS :
         t \in Decided <=>
           /\ t \in DOMAIN observation.lights
           /\ DOMAIN observation.lights[t] # {}
           /\ Get(observation.lights[t], "time_to_next_switch", 0) <= 50
    /\ result.is_none <=>
         ~\E t \in TLS :
            /\ t \in DOMAIN observation.lights
            /\ DOMAIN observation.lights[t] # {}
            /\ Get(observation.lights[t], "time_to_next_switch", 0) <= 50
    /\ ~result.is_none => DOMAIN result.map # {}

C2_Witness ==
  /\ Called
  /\ tls_ids[1] \in DOMAIN observation.lights
  /\ DOMAIN observation.lights[tls_ids[1]] # {}
  /\ Get(observation.lights[tls_ids[1]], "time_to_next_switch", 0) = 50
  /\ tls_ids[2] \notin DOMAIN observation.lights
  /\ Decided = {tls_ids[1]}

\* C3: stay-rule: whenever the current phase is present and its raw efficiency
\* is >= 0.85 times the highest raw efficiency, the decision keeps it.
C3_StayRuleKeepsCurrent ==
  Called =>
    \A t \in Decided :
      (CurrentOf(t) # NoneVal /\ 20 * CurrentRawEff(t) >= 17 * BestRawEff(t))
        => result.map[t].phase_id = CurrentOf(t)

\* exact equality at 0.85 with a positive efficiency, while the penalty-
\* adjusted ranking prefers the other phase
C3_Witness ==
  /\ Called
  /\ tls_ids[1] \in Decided
  /\ CurrentOf(tls_ids[1]) \in GreenSet(tls_ids[1])
  /\ CurrentRawEff(tls_ids[1]) > 0
  /\ 20 * CurrentRawEff(tls_ids[1]) = 17 * BestRawEff(tls_ids[1])
  /\ CurrentOf(tls_ids[1]) \notin TopAdjusted(tls_ids[1])
  /\ result.map[tls_ids[1]].phase_id = CurrentOf(tls_ids[1])

\* C4: an emitted duration lies in [7.0, 70.0] when time_in_phase <= 60; when
\* time_in_phase > 60 it is 0.9 times the clamped value (rounded to a tenth,
\* not clamped again) and never exceeds 70.0.
C4_DurationRange ==
  Called =>
    \A t \in Decided :
      LET d       == result.map[t].duration
          tip     == TimeInPhaseOf(t)
          p       == result.map[t].phase_id
          clamped == Clamp(RawDuration(CalculateWaitingTraffic(observation, t, p),
                                       EstimatePhaseCapacity(observation, t, p)))
      IN  /\ tip[1] <= 60 * tip[2] => (70 <= d /\ d <= 700)
          /\ tip[1] > 60 * tip[2] =>
               /\ d = RoundTenths([lin |-> 9 * clamped.lin, rad |-> 81 * clamped.rad])
               /\ d <= 700
          /\ DurGe(clamped, 70) /\ DurLe(clamped, 700)

\* a long-running phase whose duration was capped at 70.0 and then decayed
C4_Witness ==
  /\ Called
  /\ tls_ids[1] \in Decided
  /\ TimeInPhaseOf(tls_ids[1]) = <<61, 1>>
  /\ result.map[tls_ids[1]].duration = 630

\* C5: construction fails, and no tick is ever processed, when some catalog
\* has no phase without "y" and with a "G" or "g"; after a successful
\* construction green_phases of each intersection is non-empty, ascending and
\* holds exactly the qualifying indices, at every later moment.
C5_GreenPhases ==
  LET Qualifies(ph) == /\ \A i \in DOMAIN ph.state : ph.state[i] # "y"
                       /\ \E i \in DOMAIN ph.state : ph.state[i] \in {"G", "g"}
      Qualifying(t) == {ph.index : ph \in {x \in Range(catalog[t]) : Qualifies(x)}}
  IN  /\ (\E t \in TLS : Qualifying(t) = {}) => (pc # "ready" /\ ticks = 0)
      /\ pc = "failed" => ticks = 0
      /\ pc = "ready" =>
           \A t \in TLS :
             /\ green_phases[t] # <<>>
             /\ \A i, j \in DOMAIN green_phases[t] :
                  i < j => green_phases[t][i] < green_phases[t][j]
             /\ GreenSet(t) = Qualifying(t)

\* a catalog listed out of order, with a phase that is green and yellow at
\* once, after the last tick
C5_Witness ==
  /\ pc = "ready"
  /\ ticks = MaxTicks
  /\ catalog[tls_ids[1]] = CatThree
  /\ green_phases[tls_ids[1]] = <<0, 2, 3>>
  /\ ~result.is_none

\* the scenario of C6: green phases [0, 2], current_phase 0, time_in_phase 10,
\* time_to_next_switch 0, waiting {0: 5, 2: 50}
C6_Scenario ==
  /\ Called
  /\ green_phases[tls_ids[1]] = <<0, 2>>
  /\ tls_ids[1] \in DOMAIN observation.lights
  /\ observation.lights[tls_ids[1]] =
       [current_phase |-> 0, time_to_next_switch |-> 0, time_in_phase |-> <<10, 1>>]
  /\ observation.waiting_vehicles[tls_ids[1]] = (0 :> 15) @@ (2 :> 150)

\* C6 as stated: the scenario yields phase_id 2 with duration 22.8.
C6_ScenarioGives228 ==
  C6_Scenario =>
    /\ tls_ids[1] \in Decided
    /\ result.map[tls_ids[1]] = [phase_id |-> 2, duration |-> 228]

\* C6 amended: the scenario yields phase_id 2 with duration 22.7.
C6_ScenarioGives227 ==
  C6_Scenario =>
    /\ tls_ids[1] \in Decided
    /\ result.map[tls_ids[1]] = [phase_id |-> 2, duration |-> 227]

C6_Witness == C6_Scenario /\ tls_ids[1] \in Decided

\* C7: the value returned depends on the catalog and the observation only: it
\* is the value a newly constructed controller, with empty counters, returns.
C7_HistoryIndependent == Called => result = fresh_result

\* a second call that found counters written by the first
C7_Witness ==
  /\ Called
  /\ ticks = 2
  /\ appeared[tls_ids[1]] = 2
  /\ Cardinality(DOMAIN last_phase_actions[tls_ids[1]]) = 2

\* C8 as stated: when the stay-rule does not fire, the phase chosen among the
\* green phases tied at the highest adjusted score has the smallest index.
C8_TieGoesToSmallestIndex ==
  Called =>
    \A t \in Decided :
      ~StayFires(t) => result.map[t].phase_id = MinOf(TopAdjusted(t))

\* C8 amended: when the stay-rule does not fire, the phase chosen among the
\* green phases tied at the highest adjusted score is the one with the highest
\* raw efficiency (so a non-current phase wins a tie against the current one),
\* and among those of equal raw efficiency the one with the smallest index.
C8_TieGoesToHighestRawThenSmallestIndex ==
  Called =>
    \A t \in Decided :
      ~StayFires(t) =>
        LET top     == TopAdjusted(t)
            topraw  == {p \in top : \A q \in top : RawEff(t, p) >= RawEff(t, q)}
        IN  result.map[t].phase_id = MinOf(topraw)

\* the current phase and a non-current phase of larger index and different
\* raw efficiency tie at the top, and the stay-rule does not fire
C8_Witness ==
  /\ Called
  /\ tls_ids[1] \in Decided
  /\ ~StayFires(tls_ids[1])
  /\ CurrentOf(tls_ids[1]) = 0
  /\ TopAdjusted(tls_ids[1]) = {0, 2}
  /\ RawEff(tls_ids[1], 0) # RawEff(tls_ids[1], 2)

\* C9: a call adds exactly 1 to the counter of the phase emitted for each
\* intersection in its decision and leaves every other counter as it was; the
\* counters of an intersection always add up to the number of calls whose
\* decision held it.
C9_Counters ==
  [][ /\ ticks' = ticks + 1 =>
           \A t \in TLS : \A p \in PhaseIds :
             CountOf(last_phase_actions', t, p) =
               CountOf(last_phase_actions, t, p)
                 + (IF Emitted(result', t, p) THEN 1 ELSE 0)
      /\ pc' = "ready" =>
           \A t \in TLS :
             /\ DOMAIN last_phase_actions'[t] \subseteq PhaseIds
             /\ SumCounters(last_phase_actions'[t]) = appeared'[t] ]_vars

\* the same phase emitted twice for one intersection while the other
\* intersection was skipped once
C9_Witness ==
  /\ Called
  /\ Get(last_phase_actions[tls_ids[1]], 2, 0) = 2
  /\ appeared[tls_ids[2]] = 1

\* C10: with a green current phase, the decision leaves it only if its raw
\* efficiency is < 0.85 times the highest and some other green phase's raw
\* efficiency minus 120 / (time_in_phase + 1) is >= the current one's; the
\* phase chosen then has the highest raw efficiency among the other phases.
C10_SwitchCondition ==
  Called =>
    \A t \in Decided :
      LET cur    == CurrentOf(t)
          chosen == result.map[t].phase_id
          tip    == TimeInPhaseOf(t)
          others == GreenSet(t) \ {cur}
      IN  (cur \in GreenSet(t) /\ chosen # cur) =>
            /\ 20 * RawEff(t, cur) < 17 * BestRawEff(t)
            /\ \E p \in others :
                 RawEff(t, p) * (tip[1] + tip[2]) - 720 * tip[2]
                   >= RawEff(t, cur) * (tip[1] + tip[2])
            /\ chosen \in others
            /\ \A p \in others : RawEff(t, chosen) >= RawEff(t, p)

\* a switch away from a green current phase with two other green phases
C10_Witness ==
  /\ Called
  /\ tls_ids[1] \in Decided
  /\ green_phases[tls_ids[1]] = <<0, 2, 3>>
  /\ CurrentOf(tls_ids[1]) = 0
  /\ result.map[tls_ids[1]].phase_id = 2
  /\ RawEff(tls_ids[1], 3) > 0

====
